---- MODULE Spec2Model ----
(***************************************************************************)
(* lyrict: the LRC parser (parse_lrc_to_sylt), the SYLT-to-LRC formatter   *)
(* (extract_sylt_to_lrc) and the timestamp normalizer                      *)
(* (standardize_timestamps) of src/lyrict.py, and the import and export    *)
(* runs over music files and external lyrics files (import_lyrics,         *)
(* write_lyric_files, purge_tags).                                         *)
(*                                                                         *)
(* A text is a sequence of one-character strings.  The regular expressions *)
(* of the source are modelled by matchers over such sequences that try the *)
(* alternatives in the order Python's backtracking engine tries them.      *)
(***************************************************************************)
EXTENDS Integers, Sequences, FiniteSets, TLC

VARIABLES text, pc, res, lrc, res2, mode, std1, std2, written

\* the state of an import or export run: the arguments, the lyrics files on
\* disk, the lyrics files that cannot be written, the music files that
\* cannot be opened, the lyrics tags of the music files, the music files
\* still to embed, the locals files_to_delete and all_lyrics, the result
\* lists, and the position of the run
VARIABLES args, disk, denied, broken, tags, todo, files_to_delete, all_lyrics,
          results, phase

lyricVars == <<text, pc, res, lrc, res2, mode, std1, std2, written>>

fileVars ==
    <<args, disk, denied, broken, tags, todo, files_to_delete, all_lyrics,
      results, phase>>

\* the search for lyrics files: the directory with the --single_folder
\* argument, and the outcome of find_lyrics_files
VARIABLES folder, found

findVars == <<folder, found>>

\* a tag_external run on one lyrics file: the kind of the file ("lrc" or
\* "txt"), the tags get_tags read from the music file, the content of the
\* lyrics file, whether it can be opened for writing, the --standardize
\* argument, and the result recorded by each call so far
VARIABLES lyrics_type, song_tags, lyrics_file, writable, tag_standardize,
          tag_results

tagVars ==
    <<lyrics_type, song_tags, lyrics_file, writable, tag_standardize,
      tag_results>>

vars == <<lyricVars, fileVars, findVars, tagVars>>

-----------------------------------------------------------------------------
(* Characters                                                              *)

Digits == {"0", "1", "2", "3", "4", "5", "6", "7", "8", "9"}

Letters ==
    {"a", "b", "c", "d", "e", "f", "g", "h", "i", "j", "k", "l", "m",
     "n", "o", "p", "q", "r", "s", "t", "u", "v", "w", "x", "y", "z",
     "A", "B", "C", "D", "E", "F", "G", "H", "I", "J", "K", "L", "M",
     "N", "O", "P", "Q", "R", "S", "T", "U", "V", "W", "X", "Y", "Z"}

IsDigit(c) == c \in Digits

\* \w of the header patterns
IsWord(c) == c \in Digits \cup Letters \cup {"_"}

\* str.strip() with no argument strips whitespace
Whitespace == {" ", "\t"}

\* re.IGNORECASE on the literal letters of the header patterns
Lower(c) ==
    CASE c = "A" -> "a"
      [] c = "B" -> "b"
      [] c = "C" -> "c"
      [] c = "D" -> "d"
      [] c = "E" -> "e"
      [] c = "F" -> "f"
      [] c = "G" -> "g"
      [] c = "H" -> "h"
      [] c = "I" -> "i"
      [] c = "J" -> "j"
      [] c = "K" -> "k"
      [] c = "L" -> "l"
      [] c = "M" -> "m"
      [] c = "N" -> "n"
      [] c = "O" -> "o"
      [] c = "P" -> "p"
      [] c = "Q" -> "q"
      [] c = "R" -> "r"
      [] c = "S" -> "s"
      [] c = "T" -> "t"
      [] c = "U" -> "u"
      [] c = "V" -> "v"
      [] c = "W" -> "w"
      [] c = "X" -> "x"
      [] c = "Y" -> "y"
      [] c = "Z" -> "z"
      [] OTHER -> c

DigitVal(c) ==
    CASE c = "0" -> 0 [] c = "1" -> 1 [] c = "2" -> 2 [] c = "3" -> 3
      [] c = "4" -> 4 [] c = "5" -> 5 [] c = "6" -> 6 [] c = "7" -> 7
      [] c = "8" -> 8 [] c = "9" -> 9

DigitChar(d) ==
    CASE d = 0 -> "0" [] d = 1 -> "1" [] d = 2 -> "2" [] d = 3 -> "3"
      [] d = 4 -> "4" [] d = 5 -> "5" [] d = 6 -> "6" [] d = 7 -> "7"
      [] d = 8 -> "8" [] d = 9 -> "9"

\* int() of a string of decimal digits
RECURSIVE ToInt(_)
ToInt(ds) ==
    IF ds = <<>> THEN 0
    ELSE ToInt(SubSeq(ds, 1, Len(ds) - 1)) * 10 + DigitVal(ds[Len(ds)])

\* str() of a natural number
RECURSIVE IntToDigits(_)
IntToDigits(n) ==
    IF n < 10 THEN <<DigitChar(n)>>
    ELSE Append(IntToDigits(n \div 10), DigitChar(n % 10))

\* the format specs {n:02} and {n:03}: zero-padded to a minimum width
RECURSIVE ZeroPad(_, _)
ZeroPad(ds, width) ==
    IF Len(ds) >= width THEN ds ELSE ZeroPad(<<"0">> \o ds, width)

Pad2(n) == ZeroPad(IntToDigits(n), 2)

Pad3(n) == ZeroPad(IntToDigits(n), 3)

\* str.ljust(width, '0')
RECURSIVE LJustZero(_, _)
LJustZero(ds, width) ==
    IF Len(ds) >= width THEN ds ELSE LJustZero(Append(ds, "0"), width)

\* s[i] when i is an index of s, and a character no pattern matches otherwise
At(s, i) == IF i >= 1 /\ i <= Len(s) THEN s[i] ELSE "END"

AllDigits(s, from, n) == \A i \in from .. (from + n - 1) : IsDigit(At(s, i))

\* the number of consecutive spaces of s that start at position p
RECURSIVE SpacesAt(_, _)
SpacesAt(s, p) == IF At(s, p) = " " THEN 1 + SpacesAt(s, p + 1) ELSE 0

\* str.strip()
RECURSIVE LStrip(_)
LStrip(s) ==
    IF s # <<>> /\ s[1] \in Whitespace THEN LStrip(Tail(s)) ELSE s

RECURSIVE RStrip(_)
RStrip(s) ==
    IF s # <<>> /\ s[Len(s)] \in Whitespace
    THEN RStrip(SubSeq(s, 1, Len(s) - 1))
    ELSE s

Strip(s) == RStrip(LStrip(s))

\* str.splitlines() on texts whose only line boundary is "\n"
RECURSIVE SplitLines(_)
SplitLines(t) ==
    LET Cut(n) == <<SubSeq(t, 1, n - 1)>> \o SplitLines(SubSeq(t, n + 1, Len(t)))
        At1(nl) == IF nl = {} THEN <<t>>
                   ELSE Cut(CHOOSE i \in nl : \A j \in nl : i <= j)
    IN  IF t = <<>> THEN <<>>
        ELSE At1({i \in 1 .. Len(t) : t[i] = "\n"})

\* "\n".join(lines)
RECURSIVE JoinLines(_)
JoinLines(ls) ==
    IF ls = <<>> THEN <<>>
    ELSE IF Len(ls) = 1 THEN ls[1]
    ELSE ls[1] \o <<"\n">> \o JoinLines(Tail(ls))

-----------------------------------------------------------------------------
(* The timestamp grammar (?:(\d{1,2}):)?(\d{1,3}):(\d{1,2})(?:\.(\d{2,3}))? *)
(* shared by the patterns of lines 335-338 and 735-736.                    *)

NoMatch == [matched |-> FALSE]

\* the widths of the four groups; hl = 0 and fl = 0 are the absent groups
TSShapes == [hl : 0 .. 2, ml : 1 .. 3, sl : 1 .. 2, fl : {0, 2, 3}]

\* positions of the groups of a match of shape c that starts at p
TSMinPos(p, c) == p + (IF c.hl > 0 THEN c.hl + 1 ELSE 0)

TSSecPos(p, c) == TSMinPos(p, c) + c.ml + 1

TSFracPos(p, c) == TSSecPos(p, c) + c.sl

\* the position that follows the match
TSEnd(p, c) == TSFracPos(p, c) + (IF c.fl > 0 THEN c.fl + 1 ELSE 0)

TSFits(s, p, c) ==
    /\ c.hl > 0 => AllDigits(s, p, c.hl) /\ At(s, p + c.hl) = ":"
    /\ AllDigits(s, TSMinPos(p, c), c.ml)
    /\ At(s, TSMinPos(p, c) + c.ml) = ":"
    /\ AllDigits(s, TSSecPos(p, c), c.sl)
    /\ c.fl > 0 => /\ At(s, TSFracPos(p, c)) = "."
                   /\ AllDigits(s, TSFracPos(p, c) + 1, c.fl)

\* The backtracking order: every quantifier is greedy and the optional
\* groups are tried present before absent, so the engine prefers the longer
\* hour group, then the longer minutes, seconds and fraction.
TSPriority(c) == c.hl * 1000 + c.ml * 100 + c.sl * 10 + c.fl

\* The first shape, in backtracking order, that matches s at p and lets the
\* rest of the pattern match: conts holds the positions from which it does.
TSMatch(s, p, conts) ==
    LET Found(c) == [matched |-> TRUE, shape |-> c, end |-> TSEnd(p, c)]
        First(ok) ==
            IF ok = {} THEN NoMatch
            ELSE Found(CHOOSE x \in ok : \A y \in ok : TSPriority(x) >= TSPriority(y))
    IN  First({c \in TSShapes : TSFits(s, p, c) /\ TSEnd(p, c) \in conts})

\* the four capture groups; <<>> stands for None
TSGroups(s, p, c) ==
    [hours        |-> SubSeq(s, p, p + c.hl - 1),
     minutes      |-> SubSeq(s, TSMinPos(p, c), TSMinPos(p, c) + c.ml - 1),
     seconds      |-> SubSeq(s, TSSecPos(p, c), TSSecPos(p, c) + c.sl - 1),
     milliseconds |-> SubSeq(s, TSFracPos(p, c) + 1, TSFracPos(p, c) + c.fl)]

-----------------------------------------------------------------------------
(* parse_lrc_to_sylt: the patterns                                         *)

\* <\d{1,3}: at position j
AngleStampAt(line, j) ==
    /\ At(line, j) = "<"
    /\ \E n \in 1 .. 3 : AllDigits(line, j + 1, n) /\ At(line, j + n + 1) = ":"

\* \[\d{1,3}: at position q
BracketStampAt(line, q) ==
    /\ At(line, q) = "["
    /\ \E n \in 1 .. 3 : AllDigits(line, q + 1, n) /\ At(line, q + n + 1) = ":"

\* the body of the negative lookahead of timestamp_pattern, tried at q:
\* (?:.*<\d{1,3}:|\[\d{1,3}:)
LookaheadHit(line, q) ==
    \/ \E j \in q .. Len(line) : AngleStampAt(line, j)
    \/ BracketStampAt(line, q)

\* the numbers of spaces " *" may consume after the "]" at position e so
\* that the negative lookahead succeeds
SpaceChoices(line, e) ==
    {k \in 0 .. SpacesAt(line, e + 1) : ~LookaheadHit(line, e + 1 + k)}

\* timestamp_pattern.match(line), line 335:
\* ^\[TS\] *(?!(?:.*<\d{1,3}:|\[\d{1,3}:))(.*)$
\* " *" is greedy, so of the admissible space counts the largest is taken.
SingleMatch(line) ==
    LET Most(ks) == CHOOSE x \in ks : \A y \in ks : x >= y
        Groups(m, g) ==
            [matched      |-> TRUE,
             hours        |-> g.hours,
             minutes      |-> g.minutes,
             seconds      |-> g.seconds,
             milliseconds |-> g.milliseconds,
             text         |-> SubSeq(line,
                                     m.end + 1 + Most(SpaceChoices(line, m.end)),
                                     Len(line))]
        Matched(m) ==
            IF ~m.matched THEN NoMatch
            ELSE Groups(m, TSGroups(line, 2, m.shape))
    IN  IF At(line, 1) # "[" THEN NoMatch
        ELSE Matched(TSMatch(line, 2,
                 {e \in DOMAIN line :
                    line[e] = "]" /\ SpaceChoices(line, e) # {}}))

\* \[TS\] at position p: the match, its end being the position after "]"
BracketTS(line, p) ==
    LET Closed(m) ==
            IF ~m.matched THEN NoMatch
            ELSE [matched |-> TRUE, shape |-> m.shape, end |-> m.end + 1]
    IN  IF At(line, p) # "[" THEN NoMatch
        ELSE Closed(TSMatch(line, p + 1, {e \in DOMAIN line : line[e] = "]"}))

\* the positions at which one repetition of (?:\[TS\] *) may end
RepetitionEnds(line, p) ==
    LET Ends(m) ==
            IF ~m.matched THEN {}
            ELSE {m.end + k : k \in 0 .. SpacesAt(line, m.end)}
    IN  Ends(BracketTS(line, p))

\* mutli_timestamp_check_pattern.match(line), line 336:
\* ^(?:\[TS\] *){2,}.*$
MultiCheck(line) ==
    \E q \in RepetitionEnds(line, 1) : RepetitionEnds(line, q) # {}

\* re.findall(multi_timestamp_pattern, line), line 337 and 366: the groups
\* of every non-overlapping \[TS\] of the line, scanned from p
RECURSIVE FindAllTS(_, _)
FindAllTS(line, p) ==
    LET Scan(m) ==
            IF m.matched
            THEN <<TSGroups(line, p + 1, m.shape)>> \o FindAllTS(line, m.end)
            ELSE FindAllTS(line, p + 1)
    IN  IF p > Len(line) THEN <<>> ELSE Scan(BracketTS(line, p))

\* the end of the greedy (?:\[TS\])* that starts at p
RECURSIVE StampsEnd(_, _)
StampsEnd(line, p) ==
    LET More(m) == IF m.matched THEN StampsEnd(line, m.end) ELSE p
    IN  More(BracketTS(line, p))

\* re.match(multi_text_pattern, line), lines 338 and 367-368:
\* ^(?:\[TS\])+ *(.*)$, group 1 stripped, "" when the pattern fails
MultiText(line) ==
    LET Group1(e) ==
            IF e = 1 THEN <<>>
            ELSE Strip(SubSeq(line, e + SpacesAt(line, e), Len(line)))
    IN  Group1(StampsEnd(line, 1))

-----------------------------------------------------------------------------
(* parse_lrc_to_sylt: the header scan, lines 333-334 and 345-352           *)

\* ^ under re.MULTILINE: the start of the text and the position after "\n"
IsLineStart(t, p) == p = 1 \/ At(t, p - 1) = "\n"

\* $ under re.MULTILINE: the end of the text and the position of a "\n"
IsLineEnd(t, q) == q = Len(t) + 1 \/ At(t, q) = "\n"

\* a literal matched under re.IGNORECASE
LiteralAt(t, p, lit) ==
    \A i \in 1 .. Len(lit) : Lower(At(t, p + i - 1)) = lit[i]

\* the number of consecutive digits of t that start at position q
RECURSIVE DigitRun(_, _)
DigitRun(t, q) == IF IsDigit(At(t, q)) THEN 1 + DigitRun(t, q + 1) ELSE 0

\* ^\[la: *(\w{2,3})\]$ tried at p: the width of group 1, 0 for no match;
\* q is the position after the spaces
LanguageWidthAt(t, p) ==
    LET Widest(ws) ==
            IF ws = {} THEN 0 ELSE CHOOSE n \in ws : \A k \in ws : n >= k
        Code(q) ==
            Widest({n \in 2 .. 3 :
                      /\ \A i \in q .. (q + n - 1) : IsWord(At(t, i))
                      /\ At(t, q + n) = "]"
                      /\ IsLineEnd(t, q + n + 1)})
    IN  IF ~(IsLineStart(t, p) /\ LiteralAt(t, p, <<"[", "l", "a", ":">>)) THEN 0
        ELSE Code(p + 4 + SpacesAt(t, p + 4))

\* language_pattern.search(lyrics): group 1 of the leftmost match,
\* and "eng" when there is none (lines 345-349)
\* language_pattern tried at the start of the text only
SearchLanguageAtStart(t) ==
    IF LanguageWidthAt(t, 1) > 0
    THEN SubSeq(t, 5 + SpacesAt(t, 5), 4 + SpacesAt(t, 5) + LanguageWidthAt(t, 1))
    ELSE <<"e", "n", "g">>

SearchLanguage(t) ==
    LET Group1(p, q) == SubSeq(t, q, q + LanguageWidthAt(t, p) - 1)
        Match(p) == Group1(p, p + 4 + SpacesAt(t, p + 4))
        Leftmost(ps) ==
            IF ps = {} THEN <<"e", "n", "g">>
            ELSE Match(CHOOSE x \in ps : \A y \in ps : x <= y)
    IN  Leftmost({p \in 1 .. Len(t) : LanguageWidthAt(t, p) > 0})

\* ^\[offset: *([+-]\d+)\]$ tried at p
OffsetMatchesAt(t, p) ==
    /\ IsLineStart(t, p)
    /\ LiteralAt(t, p, <<"[", "o", "f", "f", "s", "e", "t", ":">>)
    /\ LET Number(q, n) ==
               /\ At(t, q) \in {"+", "-"}
               /\ n >= 1
               /\ At(t, q + 1 + n) = "]"
               /\ IsLineEnd(t, q + 2 + n)
           Signed(q) == Number(q, DigitRun(t, q + 1))
       IN  Signed(p + 8 + SpacesAt(t, p + 8))

\* int(group 1) of the match at p
OffsetValueAt(t, p) ==
    LET Signed(q, v) == IF t[q] = "-" THEN 0 - v ELSE v
        Group1(q) == Signed(q, ToInt(SubSeq(t, q + 1, q + DigitRun(t, q + 1))))
    IN  Group1(p + 8 + SpacesAt(t, p + 8))

\* SearchOffset with offset_pattern.match in place of search: the tag is
\* found on the first line only
SearchOffsetAtStart(t) ==
    IF OffsetMatchesAt(t, 1) THEN OffsetValueAt(t, 1) ELSE 0

\* ^\[offset: *(\d+)\]$ tried at p: the number without a sign
UnsignedOffsetAt(t, p) ==
    /\ IsLineStart(t, p)
    /\ LiteralAt(t, p, <<"[", "o", "f", "f", "s", "e", "t", ":">>)
    /\ LET Number(q, n) ==
               /\ n >= 1
               /\ At(t, q + n) = "]"
               /\ IsLineEnd(t, q + n + 1)
           Unsigned(q) == Number(q, DigitRun(t, q))
       IN  Unsigned(p + 8 + SpacesAt(t, p + 8))

\* SearchOffset for the pattern ^\[offset: *([+-]?\d+)\]$, the sign optional
SearchOffsetSignOptional(t) ==
    LET Value(p, q) ==
            IF OffsetMatchesAt(t, p) THEN OffsetValueAt(t, p)
            ELSE ToInt(SubSeq(t, q, q + DigitRun(t, q) - 1))
        Leftmost(ps) ==
            IF ps = {} THEN 0
            ELSE Value(CHOOSE x \in ps : \A y \in ps : x <= y,
                       (CHOOSE x \in ps : \A y \in ps : x <= y) + 8
                       + SpacesAt(t, (CHOOSE x \in ps : \A y \in ps : x <= y) + 8))
    IN  Leftmost({p \in 1 .. Len(t) :
                    OffsetMatchesAt(t, p) \/ UnsignedOffsetAt(t, p)})

\* offset_pattern.search(lyrics): the leftmost match of the whole text,
\* offset = 0 when there is none (lines 342 and 350-352)
SearchOffset(t) ==
    LET Leftmost(ps) ==
            IF ps = {} THEN 0
            ELSE OffsetValueAt(t, CHOOSE x \in ps : \A y \in ps : x <= y)
    IN  Leftmost({p \in 1 .. Len(t) : OffsetMatchesAt(t, p)})

-----------------------------------------------------------------------------
(* parse_lrc_to_sylt: the loop over the lines, lines 354-380               *)

\* FractionMs without the padding: int(milliseconds)
FractionMsNoPad(f) == IF f = <<>> THEN 0 ELSE ToInt(f)

\* int(milliseconds.ljust(3, '0')) if milliseconds else 0
FractionMs(f) == IF f = <<>> THEN 0 ELSE ToInt(LJustZero(f, 3))

\* lines 358-362 and 370-376: the value of the groups of match, plus offset
TimestampMs(m, offset) ==
    (IF m.hours = <<>> THEN 0 ELSE ToInt(m.hours)) * 3600000
    + ToInt(m.minutes) * 60000
    + ToInt(m.seconds) * 1000
    + FractionMs(m.milliseconds)
    + offset

\* line 363: a single-timestamp line is kept from 0 on
\* line 364 without the test of line 363
SingleKeptAlways(timestamp) == TRUE

\* the test of line 377 in the place of that of line 363
SingleKeptPositive(timestamp) == timestamp > 0

SingleKept(timestamp) == timestamp >= 0

\* line 377: a timestamp of a multi-timestamp line is kept above 0
MultiKept(sylt_timestamp) == sylt_timestamp > 0

\* f"{index + 1} {line}" with the 0-based index of enumerate
\* the record with the 0-based index of the line
OmittedRecordZeroBased(index, line) == IntToDigits(index) \o <<" ">> \o line

OmittedRecord(index, line) == IntToDigits(index + 1) \o <<" ">> \o line

\* lines 369-378: one pass of the loop body per element of timestamps; the
\* body reads the groups of match, the last single-timestamp match
RECURSIVE MultiAppend(_, _, _, _, _)
MultiAppend(sylt_lyrics, timestamps, matchv, txt, offset) ==
    LET Body(sylt_timestamp) ==
            MultiAppend(IF MultiKept(sylt_timestamp)
                        THEN Append(sylt_lyrics, <<txt, sylt_timestamp>>)
                        ELSE sylt_lyrics,
                        Tail(timestamps), matchv, txt, offset)
    IN  IF timestamps = <<>> THEN sylt_lyrics
        ELSE Body(TimestampMs(matchv, offset))

\* The locals of the loop: match is NoMatch while the name is unbound.
LoopStart ==
    [status |-> "running", match |-> NoMatch,
     sylt_lyrics |-> <<>>, omitted_lines |-> <<>>]

\* One iteration of the loop of line 354, index being 0-based.  Reading the
\* unbound local match at line 370 raises UnboundLocalError.
ParseLine(st, index, line, offset) ==
    LET Single(m, timestamp) ==
            [st EXCEPT !.match = m,
                       !.sylt_lyrics =
                           IF SingleKept(timestamp)
                           THEN Append(@, <<Strip(m.text), timestamp>>)
                           ELSE @]
        Multi(timestamps) ==
            IF timestamps = <<>> THEN st
            ELSE IF ~st.match.matched
            THEN [st EXCEPT !.status = "raised"]
            ELSE [st EXCEPT !.sylt_lyrics =
                      MultiAppend(@, timestamps, st.match,
                                  MultiText(line), offset)]
        Branch(m) ==
            IF m.matched THEN Single(m, TimestampMs(m, offset))
            ELSE IF MultiCheck(line) THEN Multi(FindAllTS(line, 1))
            ELSE [st EXCEPT !.omitted_lines = Append(@, OmittedRecord(index, line))]
    IN  IF st.status # "running" THEN st ELSE Branch(SingleMatch(line))

RECURSIVE ParseLoop(_, _, _, _)
ParseLoop(lines, index, st, offset) ==
    IF index >= Len(lines) THEN st
    ELSE ParseLoop(lines, index + 1,
                   ParseLine(st, index, lines[index + 1], offset), offset)

\* InsertByTime placing an element before the elements of equal key
RECURSIVE InsertTiesFirst(_, _)
InsertTiesFirst(sorted, ev) ==
    IF sorted = <<>> THEN <<ev>>
    ELSE IF sorted[Len(sorted)][2] < ev[2] THEN Append(sorted, ev)
    ELSE Append(InsertTiesFirst(SubSeq(sorted, 1, Len(sorted) - 1), ev),
                sorted[Len(sorted)])

\* sorted(sylt_lyrics, key=lambda x: x[1]), line 382: a stable sort, each
\* element placed after the elements whose key is not greater
RECURSIVE InsertByTime(_, _)
InsertByTime(sorted, ev) ==
    IF sorted = <<>> THEN <<ev>>
    ELSE IF sorted[Len(sorted)][2] <= ev[2] THEN Append(sorted, ev)
    ELSE Append(InsertByTime(SubSeq(sorted, 1, Len(sorted) - 1), ev),
                sorted[Len(sorted)])

\* SortedByTime over the set of the elements: sorted(set(sylt_lyrics), ...)
RECURSIVE SortedByTimeDedup(_)
SortedByTimeDedup(evs) ==
    IF evs = <<>> THEN <<>>
    ELSE LET rest == SortedByTimeDedup(SubSeq(evs, 1, Len(evs) - 1))
         IN  IF \E i \in DOMAIN rest : rest[i] = evs[Len(evs)] THEN rest
             ELSE InsertByTime(rest, evs[Len(evs)])

RECURSIVE SortedByTime(_)
SortedByTime(evs) ==
    IF evs = <<>> THEN <<>>
    ELSE InsertByTime(SortedByTime(SubSeq(evs, 1, Len(evs) - 1)), evs[Len(evs)])

Raised == [status |-> "raised", language |-> <<>>, events |-> <<>>, omitted |-> <<>>]

\* parse_lrc_to_sylt(lyrics), lines 331-382
Parse(lyrics) ==
    LET Result(final) ==
            IF final.status = "raised" THEN Raised
            ELSE [status   |-> "returned",
                  language |-> SearchLanguage(lyrics),
                  events   |-> SortedByTime(final.sylt_lyrics),
                  omitted  |-> final.omitted_lines]
    IN  Result(ParseLoop(SplitLines(lyrics), 0, LoopStart, SearchOffset(lyrics)))

-----------------------------------------------------------------------------
(* extract_sylt_to_lrc, lines 591-611                                      *)

\* timedelta(...).seconds: the seconds within the day, the days being kept
\* in a field of their own that neither routine reads
TimedeltaSeconds(total_ms) == (total_ms \div 1000) % 86400

\* timedelta(...).microseconds // 1000
TimedeltaMillis(total_ms) == total_ms % 1000

\* lines 595-609: the line of one (text, timestamp) element of the frame
LrcLine(ev) ==
    LET Formatted(hours, clock) ==
            <<"[">>
            \o (IF hours > 0 THEN Pad2(hours) \o <<":">> \o clock ELSE clock)
            \o <<"]">> \o ev[1]
        Fields(secs, milliseconds) ==
            Formatted(secs \div 3600,
                      Pad2((secs % 3600) \div 60) \o <<":">> \o Pad2(secs % 60)
                      \o <<".">> \o Pad3(milliseconds))
    IN  Fields(TimedeltaSeconds(ev[2]), TimedeltaMillis(ev[2]))

RECURSIVE LrcLines(_)
LrcLines(evs) ==
    IF evs = <<>> THEN <<>> ELSE <<LrcLine(evs[1])>> \o LrcLines(Tail(evs))

\* extract_sylt_to_lrc(sylt_frame) for a frame whose text is evs
ExtractSyltToLrc(evs) == JoinLines(LrcLines(evs))

\* str.strip() of a whole text: line breaks are whitespace too
RECURSIVE StripText(_)
StripText(s) ==
    IF s = <<>> THEN <<>>
    ELSE IF s[1] \in Whitespace \cup {"\n"} THEN StripText(Tail(s))
    ELSE IF s[Len(s)] \in Whitespace \cup {"\n"}
    THEN StripText(SubSeq(s, 1, Len(s) - 1))
    ELSE s

\* re.sub(language_pattern, f"[la:{lang}]", lyrics), line 765, from p on
RECURSIVE ReplaceLanguage(_, _, _)
ReplaceLanguage(t, p, lang) ==
    IF p > Len(t) THEN <<>>
    ELSE IF LanguageWidthAt(t, p) > 0
    THEN <<"[", "l", "a", ":">> \o lang \o <<"]">>
         \o ReplaceLanguage(t, p + 5 + SpacesAt(t, p + 4) + LanguageWidthAt(t, p),
                            lang)
    ELSE <<t[p]>> \o ReplaceLanguage(t, p + 1, lang)

\* line 752: the extension of the file of the synchronized lyrics
SyncedExtension == "lrc"

\* the extension with the dot that line 763 compares with
SyncedExtensionDotted == ".lrc"

\* lines 762-768 of write_lyric_files for an entry of all_lyrics["synced"]:
\* the text written to the file.  The text has no "\r\n", so the split of
\* line 768 gives one piece, which is stripped.
WriteLyricText(lyrics, lang) ==
    LET Joined(withLang) == StripText(withLang)
    IN  Joined(IF SyncedExtension = SyncedExtensionDotted /\ lang # <<>>
               THEN (IF \E p \in DOMAIN lyrics : LanguageWidthAt(lyrics, p) > 0
                     THEN ReplaceLanguage(lyrics, 1, lang)
                     ELSE <<"[", "l", "a", ":">> \o lang \o <<"]", "\n">> \o lyrics)
               ELSE lyrics)

-----------------------------------------------------------------------------
(* standardize_timestamps, lines 668-747                                   *)

Modes == {"keep", "force.xx", "force.xxx"}

\* raw_ms.ljust(2, '0') without the slice [:2]
FirstTwoPadded(raw_ms) == LJustZero(raw_ms, 2)

\* raw_ms.ljust(2, '0')[:2]
FirstTwo(raw_ms) == SubSeq(LJustZero(raw_ms, 2), 1, 2)

\* lines 688-731: the fraction appended to the clock, per mode
FractionPart(raw_ms, milliseconds, standardize) ==
    CASE standardize = "keep" ->
           IF raw_ms = <<>> THEN <<>>
           ELSE IF Len(raw_ms) = 2 THEN <<".">> \o FirstTwo(raw_ms)
           ELSE IF Len(raw_ms) = 3 THEN <<".">> \o Pad3(milliseconds)
           ELSE <<>>
      [] standardize = "force.xx" ->
           IF raw_ms = <<>> THEN <<".", "0", "0">>
           ELSE <<".">> \o FirstTwo(raw_ms)
      [] standardize = "force.xxx" ->
           IF raw_ms = <<>> THEN <<".", "0", "0", "0">>
           ELSE <<".">> \o Pad3(milliseconds)

\* ClockPart without the carry of minutes into hours: mm:ss of the total
ClockPartNoHourCarry(secs) ==
    Pad2(secs \div 60) \o <<":">> \o Pad2(secs % 60)

\* lines 683-685 with the formatting of lines 690-731: hh:mm:ss when the
\* carried hour count is not 0, mm:ss otherwise
ClockPart(secs) ==
    LET Formatted(hours, minutes, seconds) ==
            IF hours # 0
            THEN Pad2(hours) \o <<":">> \o Pad2(minutes) \o <<":">> \o Pad2(seconds)
            ELSE Pad2(minutes) \o <<":">> \o Pad2(seconds)
    IN  Formatted(secs \div 3600, (secs % 3600) \div 60, secs % 60)

\* a split pattern whose minutes are \d{1,2}: no match for 3-digit minutes
SplitTimestampShortMinutes(token) ==
    LET Short(m) == IF m.matched /\ m.shape.ml = 3 THEN NoMatch ELSE m
    IN  Short(TSMatch(token, 1, 1 .. Len(token) + 1))

\* re.match(split_timestamp_pattern, token), lines 671 and 736
SplitTimestamp(token) == TSMatch(token, 1, 1 .. Len(token) + 1)

\* what units_split.group(1) raises when units_split is None, line 673
Unsplit == "AttributeError"

\* fix_timestamp(match), lines 669-732, for the token match.group(1)
FixTimestamp(token, standardize) ==
    LET Formatted(raw_ms, total_ms) ==
            ClockPart(TimedeltaSeconds(total_ms))
            \o FractionPart(raw_ms, TimedeltaMillis(total_ms), standardize)
        Fields(units_split) ==
            Formatted(units_split.milliseconds, TimestampMs(units_split, 0))
        Split(m) ==
            IF m.matched THEN Fields(TSGroups(token, 1, m.shape))
            ELSE <<Unsplit>>
    IN  Split(SplitTimestamp(token))

\* timestamp_pattern of line 735 tried at p:
\* (?<=[\[<])(TS)(?=[\]>])
TokenAt(s, p) ==
    IF At(s, p - 1) \in {"[", "<"}
    THEN TSMatch(s, p, {e \in DOMAIN s : s[e] \in {"]", ">"}})
    ELSE NoMatch

\* re.sub(timestamp_pattern, fix_timestamp, lyrics), line 741, from p on
RECURSIVE SubTimestamps(_, _, _)
SubTimestamps(s, p, standardize) ==
    LET Replace(m) ==
            IF m.matched
            THEN FixTimestamp(SubSeq(s, p, m.end - 1), standardize)
                 \o SubTimestamps(s, m.end, standardize)
            ELSE <<s[p]>> \o SubTimestamps(s, p + 1, standardize)
    IN  IF p > Len(s) THEN <<>> ELSE Replace(TokenAt(s, p))

\* StripAfterBracket for the pattern (\d{2}\]) without the +: one space
RECURSIVE StripOneSpace(_, _)
StripOneSpace(s, p) ==
    IF p > Len(s) THEN <<>>
    ELSE IF /\ AllDigits(s, p, 2)
            /\ At(s, p + 2) = "]"
            /\ At(s, p + 3) = " "
    THEN SubSeq(s, p, p + 2) \o StripOneSpace(s, p + 4)
    ELSE <<s[p]>> \o StripOneSpace(s, p + 1)

\* re.sub(r"(\d{2}\]) +", r"\1", lyrics), line 742, from p on
RECURSIVE StripAfterBracket(_, _)
StripAfterBracket(s, p) ==
    IF p > Len(s) THEN <<>>
    ELSE IF /\ AllDigits(s, p, 2)
            /\ At(s, p + 2) = "]"
            /\ At(s, p + 3) = " "
    THEN SubSeq(s, p, p + 2) \o StripAfterBracket(s, p + 3 + SpacesAt(s, p + 3))
    ELSE <<s[p]>> \o StripAfterBracket(s, p + 1)

\* the number of consecutive "\n" of s that start at position p
RECURSIVE NewlinesAt(_, _)
NewlinesAt(s, p) == IF At(s, p) = "\n" THEN 1 + NewlinesAt(s, p + 1) ELSE 0

\* re.sub(r'\n{2,}', '\n\n', lyrics), line 745, from p on
RECURSIVE CollapseNewlines(_, _)
CollapseNewlines(s, p) ==
    IF p > Len(s) THEN <<>>
    ELSE IF NewlinesAt(s, p) >= 2
    THEN <<"\n", "\n">> \o CollapseNewlines(s, p + NewlinesAt(s, p))
    ELSE <<s[p]>> \o CollapseNewlines(s, p + 1)

\* the outcome of a call in which fix_timestamp raised
StandardizeRaised == <<Unsplit>>

\* standardize_timestamps(lyrics, standardize): the text returned, or
\* StandardizeRaised when fix_timestamp raised during the re.sub of line 741
Standardize(lyrics, standardize) ==
    LET Rest(fixed) ==
            IF \E i \in DOMAIN fixed : fixed[i] = Unsplit
            THEN StandardizeRaised
            ELSE CollapseNewlines(StripAfterBracket(fixed, 1), 1)
    IN  Rest(SubTimestamps(lyrics, 1, standardize))

-----------------------------------------------------------------------------
(* The input texts: the lines below, up to MaxLines of them joined by "\n", *)
(* and the example texts of the specification.                             *)

\* [00:05]b
LineB == <<"[", "0", "0", ":", "0", "5", "]", "b">>

\* [00:01]a
LineA == <<"[", "0", "0", ":", "0", "1", "]", "a">>

\* [00:03]c
LineC == <<"[", "0", "0", ":", "0", "3", "]", "c">>

\* [0:05.00] q
LineQ == <<"[", "0", ":", "0", "5", ".", "0", "0", "]", " ", "q">>

\* [00:02.000]hello
LineHello == <<"[", "0", "0", ":", "0", "2", ".", "0", "0", "0", "]", "h", "e", "l", "l", "o">>

\* [00:00.50]z
LineHalf == <<"[", "0", "0", ":", "0", "0", ".", "5", "0", "]", "z">>

\* [1:00:00.50]  x 
LineHour == <<"[", "1", ":", "0", "0", ":", "0", "0", ".", "5", "0", "]", " ", " ", "x", " ">>

\* [25:00:00]x
LineDay == <<"[", "2", "5", ":", "0", "0", ":", "0", "0", "]", "x">>

\* [24:00:00]x
LineMidnight == <<"[", "2", "4", ":", "0", "0", ":", "0", "0", "]", "x">>

\* [00:01.999]x
LineTrunc == <<"[", "0", "0", ":", "0", "1", ".", "9", "9", "9", "]", "x">>

\* [LA: fra]
LineLangUpper == <<"[", "L", "A", ":", " ", "f", "r", "a", "]">>

\* [offset:+500]
LineOffsetPlus == <<"[", "o", "f", "f", "s", "e", "t", ":", "+", "5", "0", "0", "]">>

\* [00:01.5]x
LineMalformed == <<"[", "0", "0", ":", "0", "1", ".", "5", "]", "x">>

\* [00:01] [00:02]text
LineSwallow == <<"[", "0", "0", ":", "0", "1", "]", " ", "[", "0", "0", ":", "0", "2", "]", "t", "e", "x", "t">>

\* [100:00]x
LineLongMinutes == <<"[", "1", "0", "0", ":", "0", "0", "]", "x">>

\* [Verse 12] la la
LineVerse == <<"[", "V", "e", "r", "s", "e", " ", "1", "2", "]", " ", "l", "a", " ", "l", "a">>

\* [offset:500]
LineOffsetUnsigned == <<"[", "o", "f", "f", "s", "e", "t", ":", "5", "0", "0", "]">>

\* [offset:-500]
LineOffsetMinus == <<"[", "o", "f", "f", "s", "e", "t", ":", "-", "5", "0", "0", "]">>

\* [75:90]x
LineCarry == <<"[", "7", "5", ":", "9", "0", "]", "x">>

\* [00:10.00][00:15.00]x
LineMulti == <<"[", "0", "0", ":", "1", "0", ".", "0", "0", "]", "[", "0", "0", ":", "1", "5", ".", "0", "0", "]", "x">>

\* [00:00.000][00:05.000]lyric
LineMultiZero == <<"[", "0", "0", ":", "0", "0", ".", "0", "0", "0", "]", "[", "0", "0", ":", "0", "5", ".", "0", "0", "0", "]", "l", "y", "r", "i", "c">>

\* [offset:-1000]
LineOffset == <<"[", "o", "f", "f", "s", "e", "t", ":", "-", "1", "0", "0", "0", "]">>

\* [la:de]
LineLang == <<"[", "l", "a", ":", "d", "e", "]">>

\* [ar:x]
LineArtist == <<"[", "a", "r", ":", "x", "]">>

\* [00:01.500] w<00:02.5><1:02:03.45>
LineAngle == <<"[", "0", "0", ":", "0", "1", ".", "5", "0", "0", "]", " ", "w", "<", "0", "0", ":", "0", "2", ".", "5", ">", "<", "1", ":", "0", "2", ":", "0", "3", ".", "4", "5", ">">>

\* three empty lines
LineBlanks == <<"\n", "\n">>

LinePool ==
    {LineB,
     LineA,
     LineQ,
     LineHello,
     LineHalf,
     LineHour,
     LineDay,
     LineMulti,
     LineMultiZero,
     LineOffset,
     LineLang,
     LineArtist,
     LineAngle,
     LineBlanks}

MaxLines == 2

\* the ordering example of the specification: [00:05]b, [00:01]a, [00:03]c
OrderingExample == JoinLines(<<LineB, LineA, LineC>>)

\* an offset tag and two lines that it moves before 0
DroppedExample == JoinLines(<<LineOffset, LineHalf, LineHalf>>)

\* two language tags and two offset tags after a timestamp line
HeaderExample ==
    JoinLines(<<LineHello, LineLangUpper, LineOffsetPlus, LineLang, LineOffset>>)

\* a malformed timestamp, an empty line and a metadata tag between two
\* timestamp lines
OmittedExample == JoinLines(<<LineA, LineMalformed, <<>>, LineArtist, LineB>>)

\* an offset tag that moves a single-timestamp line before 0, and a
\* multi-timestamp line after it
NegativeMultiExample == JoinLines(<<LineOffset, LineHalf, LineMulti>>)

\* an offset tag without a sign, with + and with -, before [00:02.000]hello
UnsignedExample == JoinLines(<<LineOffsetUnsigned, LineHello>>)

PlusExample == JoinLines(<<LineOffsetPlus, LineHello>>)

MinusExample == JoinLines(<<LineOffsetMinus, LineHello>>)

ExampleTexts ==
    {OrderingExample, DroppedExample, LineCarry, LineMidnight, LineTrunc,
     HeaderExample, OmittedExample, LineSwallow, LineLongMinutes,
     NegativeMultiExample, LineVerse,
     UnsignedExample, PlusExample, MinusExample}

Inputs ==
    {JoinLines(ls) : ls \in UNION {[1 .. n -> LinePool] : n \in 0 .. MaxLines}}
    \cup ExampleTexts

-----------------------------------------------------------------------------
(* The state machine: a text is parsed (import into an MP3, line 416),     *)
(* the parsed frame is formatted back to LRC (export, line 625) and the    *)
(* exported text parsed again; or the text is standardized (lines 390,     *)
(* 643, 659, 911) and the result standardized again.                       *)

NoResult == [status |-> "none", language |-> <<>>, events |-> <<>>, omitted |-> <<>>]

NoResults == [saved |-> {}, skipped |-> {}, failed |-> {}, deleted |-> {}, purged |-> {}]

\* no import or export run
FilesIdle ==
    /\ args = [run |-> "none", delete |-> FALSE, overwrite |-> FALSE]
    /\ disk = {}
    /\ denied = {}
    /\ broken = {}
    /\ tags = <<>>
    /\ todo = {}
    /\ files_to_delete = {}
    /\ all_lyrics = {}
    /\ results = NoResults
    /\ phase = "idle"

NotFound == [status |-> "none", lrc |-> {}, txt |-> {}]

\* no search for lyrics files
FindIdle ==
    /\ folder = [single_folder |-> FALSE, top |-> {}, sub |-> {}]
    /\ found = NotFound

\* get_tags on a music file without tags, before format_time sets the length
NoTags ==
    [artist |-> <<>>, album |-> <<>>, title |-> <<>>, composer |-> <<>>,
     lyricist |-> <<>>, length |-> <<>>]

\* no tag_external run
TagIdle ==
    /\ lyrics_type = "none"
    /\ song_tags = NoTags
    /\ lyrics_file = <<>>
    /\ writable = TRUE
    /\ tag_standardize = "off"
    /\ tag_results = <<>>

Init ==
    /\ text \in Inputs
    /\ pc = "start"
    /\ res = NoResult
    /\ lrc = <<>>
    /\ res2 = NoResult
    /\ mode = "none"
    /\ std1 = <<>>
    /\ std2 = <<>>
    /\ written = <<>>
    /\ FilesIdle
    /\ FindIdle
    /\ TagIdle

ParseText ==
    /\ pc = "start"
    /\ res' = Parse(text)
    /\ pc' = "parsed"
    /\ UNCHANGED <<text, lrc, res2, mode, std1, std2, written, fileVars, findVars, tagVars>>

ExportFrame ==
    /\ pc = "parsed"
    /\ res.status = "returned"
    /\ lrc' = ExtractSyltToLrc(res.events)
    /\ pc' = "exported"
    /\ UNCHANGED <<text, res, res2, mode, std1, std2, written, fileVars, findVars, tagVars>>

ParseExported ==
    /\ pc = "exported"
    /\ res2' = Parse(lrc)
    /\ pc' = "reparsed"
    /\ UNCHANGED <<text, res, lrc, mode, std1, std2, written, fileVars, findVars, tagVars>>

\* write_lyric_files, lines 758-772, for the entry process_mp3 made of the
\* SYLT frame: its text and its language
WriteLyricFile ==
    /\ pc = "exported"
    /\ written' = WriteLyricText(lrc, res.language)
    /\ pc' = "written"
    /\ UNCHANGED <<text, res, lrc, res2, mode, std1, std2, fileVars, findVars, tagVars>>

StandardizeText(m) ==
    /\ pc = "start"
    /\ mode' = m
    /\ std1' = Standardize(text, m)
    /\ pc' = "standardized"
    /\ UNCHANGED <<text, res, lrc, res2, std2, written, fileVars, findVars, tagVars>>

StandardizeAgain ==
    /\ pc = "standardized"
    /\ std1 # StandardizeRaised
    /\ std2' = Standardize(std1, mode)
    /\ pc' = "restandardized"
    /\ UNCHANGED <<text, res, lrc, res2, mode, std1, written, fileVars, findVars, tagVars>>

\* the same lyrics on the two import paths: embed_lyrics_mp3 parses the text
\* as read (line 416); embed_lyrics_flac stores the standardized text (lines
\* 389-391), which is parsed when it is read back
ParseStandardized ==
    /\ pc = "standardized"
    /\ std1 # StandardizeRaised
    /\ res' = Parse(text)
    /\ res2' = Parse(std1)
    /\ pc' = "compared"
    /\ UNCHANGED <<text, lrc, mode, std1, std2, written, fileVars, findVars, tagVars>>

Next ==
    \/ ParseText
    \/ ExportFrame
    \/ ParseExported
    \/ WriteLyricFile
    \/ \E m \in Modes : StandardizeText(m)
    \/ StandardizeAgain
    \/ ParseStandardized

Spec == Init /\ [][Next]_vars

-----------------------------------------------------------------------------
(* The import run (import_lyrics, lines 454-505) and the export run        *)
(* (main, lines 1062-1074) over two music files.  A lyrics file is the     *)
(* pair of its music file and its extension; tags[song] holds the content  *)
(* of the synchronized tag of the song (FLAC LYRICS, MP3 SYLT) under lrc   *)
(* and of its unsynchronized tag (UNSYNCEDLYRICS, USLT) under txt: "none", *)
(* "old" for what the tag held before the run, "new" for the content of    *)
(* the external file.                                                      *)

Songs == {"a.flac", "b.mp3"}

\* file_path.lower().endswith('.mp3'), lines 449 and 574
IsMp3(song) == song = "b.mp3"

Kinds == {"lrc", "txt"}

LyricFiles == Songs \X Kinds

\* embed_lyrics_flac without the tests `not ... in audio or overwrite`
EmbedLyricsFlacAlways(tag, lyrics, unsynced_lyrics, overwrite) ==
    [tag     |-> [lrc |-> IF lyrics THEN "new" ELSE tag.lrc,
                  txt |-> IF unsynced_lyrics THEN "new" ELSE tag.txt],
     outcome |-> IF lyrics \/ unsynced_lyrics THEN "saved" ELSE "skipped"]

\* embed_lyrics_flac, lines 384-401, on the tags tag of the file
EmbedLyricsFlac(tag, lyrics, unsynced_lyrics, overwrite) ==
    LET Embedded(synced, unsynced) ==
            [tag     |-> [lrc |-> IF synced THEN "new" ELSE tag.lrc,
                          txt |-> IF unsynced THEN "new" ELSE tag.txt],
             outcome |-> IF synced \/ unsynced THEN "saved" ELSE "skipped"]
    IN  Embedded((tag.lrc = "none" \/ overwrite) /\ lyrics,
                 (tag.txt = "none" \/ overwrite) /\ unsynced_lyrics)

\* embed_lyrics_mp3, lines 403-441: omitted_lines is bound only in the SYLT
\* branch (line 416), so its read at line 437, after the save of line 436,
\* raises when only the USLT frame was added
EmbedLyricsMp3(tag, lyrics, unsynced_lyrics, overwrite) ==
    LET Embedded(synced, unsynced) ==
            [tag     |-> [lrc |-> IF synced THEN "new" ELSE tag.lrc,
                          txt |-> IF unsynced THEN "new" ELSE tag.txt],
             outcome |-> IF ~(synced \/ unsynced) THEN "skipped"
                         ELSE IF synced THEN "saved"
                         ELSE "failed"]
    IN  Embedded((tag.lrc = "none" \/ overwrite) /\ lyrics,
                 (tag.txt = "none" \/ overwrite) /\ unsynced_lyrics)

\* embed_lyrics, lines 443-452; opening a music file that cannot be opened
\* raises before anything is changed
EmbedLyricsOf(song) ==
    IF song \in broken THEN [tag |-> tags[song], outcome |-> "failed"]
    ELSE IF IsMp3(song)
    THEN EmbedLyricsMp3(tags[song], <<song, "lrc">> \in disk,
                        <<song, "txt">> \in disk, args.overwrite)
    ELSE EmbedLyricsFlac(tags[song], <<song, "lrc">> \in disk,
                         <<song, "txt">> \in disk, args.overwrite)

\* results[outcome].append(song)
Recorded(rs, outcome, song) ==
    [rs EXCEPT !.saved   = IF outcome = "saved" THEN @ \cup {song} ELSE @,
               !.skipped = IF outcome = "skipped" THEN @ \cup {song} ELSE @,
               !.failed  = IF outcome = "failed" THEN @ \cup {song} ELSE @]

\* the music files with a lyrics file, lines 466-470
Linked == {song \in Songs : \E k \in Kinds : <<song, k>> \in disk}

TagContents == [lrc : {"none", "old"}, txt : {"none", "old"}]

FileInit ==
    /\ text = <<>>
    /\ pc = "idle"
    /\ res = NoResult
    /\ lrc = <<>>
    /\ res2 = NoResult
    /\ mode = "none"
    /\ std1 = <<>>
    /\ std2 = <<>>
    /\ written = <<>>
    /\ args \in [run : {"import", "export"}, delete : BOOLEAN, overwrite : BOOLEAN]
    /\ disk \in SUBSET LyricFiles
    /\ tags \in [Songs -> TagContents]
    /\ IF args.run = "import"
       THEN /\ broken \in SUBSET Songs
            /\ denied = {}
            /\ todo = Linked
            /\ phase = "embedding"
       ELSE /\ broken = {}
            /\ denied \in {d \in SUBSET LyricFiles : Cardinality(d) <= 1}
            /\ todo = {}
            /\ phase = "extracting"
    /\ files_to_delete = {}
    /\ all_lyrics = {}
    /\ results = NoResults
    /\ FindIdle
    /\ TagIdle

\* one turn of the loop of lines 470-489 of import_lyrics
EmbedLyrics(song) ==
    /\ phase = "embedding"
    /\ song \in todo
    /\ tags' = [tags EXCEPT ![song] = EmbedLyricsOf(song).tag]
    /\ results' = Recorded(results, EmbedLyricsOf(song).outcome, song)
    /\ files_to_delete' =
           IF args.delete /\ EmbedLyricsOf(song).outcome # "failed"
           THEN files_to_delete \cup {f \in disk : f[1] = song}
           ELSE files_to_delete
    /\ todo' = todo \ {song}
    /\ UNCHANGED <<lyricVars, findVars, tagVars, args, disk, denied, broken, all_lyrics, phase>>

\* lines 496-505 of import_lyrics
DeleteFiles ==
    /\ phase = "embedding"
    /\ todo = {}
    /\ disk' = IF args.delete THEN disk \ files_to_delete ELSE disk
    /\ results' = [results EXCEPT !.deleted =
                       IF args.delete THEN files_to_delete ELSE {}]
    /\ phase' = "done"
    /\ UNCHANGED <<lyricVars, findVars, tagVars, args, denied, broken, tags, todo, files_to_delete,
                   all_lyrics>>

\* the program is run again in import mode with the same arguments, over
\* the files the previous run has left (main, lines 1047-1049)
ImportAgain ==
    /\ phase = "done"
    /\ args.run = "import"
    /\ results.saved \cup results.skipped \cup results.failed # {}
    /\ todo' = Linked
    /\ files_to_delete' = {}
    /\ results' = NoResults
    /\ phase' = "embedding"
    /\ UNCHANGED <<lyricVars, findVars, tagVars, args, disk, denied, broken, tags, all_lyrics>>

\* extract_lyrics, lines 568-588, with process_mp3 and process_flac: one
\* entry for every lyrics tag of every music file
ExtractLyrics ==
    /\ phase = "extracting"
    /\ all_lyrics' = {f \in LyricFiles : tags[f[1]][f[2]] # "none"}
    /\ phase' = "writing"
    /\ UNCHANGED <<lyricVars, findVars, tagVars, args, disk, denied, broken, tags, todo,
                   files_to_delete, results>>

\* the entries write_lyric_files tries to write, line 769
Attempted == {f \in all_lyrics : f \notin disk \/ args.overwrite}

\* write_lyric_files, lines 750-786
WriteLyricFiles ==
    /\ phase = "writing"
    /\ disk' = disk \cup (Attempted \ denied)
    /\ results' = [results EXCEPT !.saved   = Attempted \ denied,
                                  !.failed  = Attempted \cap denied,
                                  !.skipped = all_lyrics \ Attempted]
    /\ phase' = IF args.delete THEN "purging" ELSE "done"
    /\ UNCHANGED <<lyricVars, findVars, tagVars, args, denied, broken, tags, todo, files_to_delete,
                   all_lyrics>>

\* delete_me of purge_tags, lines 790-796
DeleteMe ==
    {f[1] : f \in results.saved \cup results.skipped}
    \ {f[1] : f \in results.failed}

\* purge_tags, lines 789-837
PurgeTags ==
    /\ phase = "purging"
    /\ tags' = [song \in Songs |->
                   IF song \in DeleteMe
                   THEN [lrc |-> "none", txt |-> "none"]
                   ELSE tags[song]]
    /\ results' = [results EXCEPT !.purged = DeleteMe]
    /\ phase' = "done"
    /\ UNCHANGED <<lyricVars, findVars, tagVars, args, disk, denied, broken, todo, files_to_delete,
                   all_lyrics>>

FileNext ==
    \/ \E song \in Songs : EmbedLyrics(song)
    \/ DeleteFiles
    \/ ImportAgain
    \/ ExtractLyrics
    \/ WriteLyricFiles
    \/ PurgeTags

FileSpec == FileInit /\ [][FileNext]_vars

-----------------------------------------------------------------------------
(* What the claims speak of, read off the input text                       *)

Lines == SplitLines(text)

Range(seq) == {seq[i] : i \in DOMAIN seq}

CountIn(seq, x) == Cardinality({i \in DOMAIN seq : seq[i] = x})

IsSingleLine(line) == SingleMatch(line).matched

IsMultiLine(line) == ~IsSingleLine(line) /\ MultiCheck(line)

IsHeaderLine(line) == LanguageWidthAt(line, 1) > 0 \/ OffsetMatchesAt(line, 1)

\* the fraction in milliseconds as the specification states it: two digits
\* are hundredths, three digits are thousandths, no fraction is 0
StatedFractionMs(f) ==
    IF Len(f) = 2 THEN 10 * ToInt(f)
    ELSE IF Len(f) = 3 THEN ToInt(f)
    ELSE 0

\* hours*3600000 + minutes*60000 + seconds*1000 + fractionMs + offset
StatedValue(g, offset) ==
    3600000 * ToInt(g.hours) + 60000 * ToInt(g.minutes)
    + 1000 * ToInt(g.seconds) + StatedFractionMs(g.milliseconds) + offset

\* the value of the first offset tag line of the document, 0 without one
StatedOffset(lines) ==
    LET hits == {i \in DOMAIN lines : OffsetMatchesAt(lines[i], 1)}
    IN  IF hits = {} THEN 0
        ELSE OffsetValueAt(lines[CHOOSE i \in hits : \A j \in hits : i <= j], 1)

\* the text of a timestamp line: what follows its first "]", stripped
TextAfterBracket(line) ==
    LET close == {i \in DOMAIN line : line[i] = "]"}
        first == CHOOSE i \in close : \A j \in close : i <= j
    IN  Strip(SubSeq(line, first + 1, Len(line)))

\* the value of a single-timestamp line
SingleValue(line, offset) == StatedValue(SingleMatch(line), offset)

\* the events the single-timestamp lines are to produce, in line order
RECURSIVE StatedSingles(_, _)
StatedSingles(lines, offset) ==
    IF lines = <<>> THEN <<>>
    ELSE LET line == lines[Len(lines)]
             rest == StatedSingles(SubSeq(lines, 1, Len(lines) - 1), offset)
         IN  IF IsSingleLine(line) /\ SingleValue(line, offset) >= 0
             THEN Append(rest, <<TextAfterBracket(line), SingleValue(line, offset)>>)
             ELSE rest

\* the text of the events a line is to produce
LineEventText(line) ==
    IF IsMultiLine(line) THEN MultiText(line) ELSE TextAfterBracket(line)

HasMultiLine == \E i \in DOMAIN Lines : IsMultiLine(Lines[i])

Returned == pc = "parsed" /\ res.status = "returned"

\* the list the loop of parse has appended to, before it is sorted
Emitted ==
    ParseLoop(Lines, 0, LoopStart, SearchOffset(text)).sylt_lyrics

EventsAt(evs, v) == SelectSeq(evs, LAMBDA ev : ev[2] = v)

-----------------------------------------------------------------------------
(* The claims                                                              *)

\* C1: parse is total: it returns a result for every text, multi-timestamp
\* lines included, and a text without any timestamp line gives no event and
\* one omittedLines record per line.
C1_ParseTotal ==
    pc = "parsed" =>
        /\ res.status = "returned"
        /\ (\A i \in DOMAIN Lines : ~IsSingleLine(Lines[i]) /\ ~IsMultiLine(Lines[i]))
             => res.events = <<>> /\ Len(res.omitted) = Len(Lines)

\* C2: every timestamp of a multi-timestamp line gives an event whose value
\* is that timestamp's own value plus the offset, with the line's text.
C2_MultiOwnTimestamps ==
    Returned =>
        \A i \in DOMAIN Lines :
            IsMultiLine(Lines[i]) =>
                LET stamps == FindAllTS(Lines[i], 1)
                IN  \A k \in DOMAIN stamps :
                        LET v == StatedValue(stamps[k], StatedOffset(Lines))
                        IN  v > 0 => <<MultiText(Lines[i]), v>> \in Range(res.events)

\* C3: on a multi-timestamp line a timestamp of value 0 gives no event and
\* one of value > 0 does: [00:00.000][00:05.000]lyric alone gives exactly
\* the event ("lyric", 5000).
C3_MultiZeroBoundary ==
    /\ (pc = "parsed" /\ text = LineMultiZero) =>
           /\ res.status = "returned"
           /\ res.events = <<<<<<"l", "y", "r", "i", "c">>, 5000>>>>
    /\ Returned =>
           \A i \in DOMAIN Lines :
               (/\ IsMultiLine(Lines[i])
                /\ \A j \in DOMAIN Lines \ {i} :
                       LineEventText(Lines[j]) # MultiText(Lines[i]))
               => LET stamps == FindAllTS(Lines[i], 1)
                      kept   == {k \in DOMAIN stamps :
                                   StatedValue(stamps[k], StatedOffset(Lines)) > 0}
                  IN  Cardinality({n \in DOMAIN res.events :
                                     res.events[n][1] = MultiText(Lines[i])})
                      = Cardinality(kept)

\* C4: a single-timestamp line gives exactly one event, of value
\* hours*3600000 + minutes*60000 + seconds*1000 + fractionMs + offset and
\* with the stripped text of the line, when that value is >= 0: every such
\* event is among the events as often as lines give it, and the events of a
\* text without multi-timestamp lines are these and no others.
C4_SingleLineEvent ==
    Returned =>
        LET want == StatedSingles(Lines, StatedOffset(Lines))
        IN  /\ \A ev \in Range(want) : CountIn(res.events, ev) >= CountIn(want, ev)
            /\ ~HasMultiLine => Len(res.events) = Len(want)

C4_Witness ==
    /\ pc = "parsed"
    /\ text = LineHour
    /\ res.events = <<<<<<"x">>, 3600500>>>>

\* C5: the offset tag shifts the timestamps wherever its line sits: with
\* [offset:-1000] before or after [00:02.000]hello the one event has value
\* 1000, and every single-timestamp line's event is shifted by the value of
\* the first offset tag, by 0 without a tag.
C5_OffsetApplied ==
    /\ (pc = "parsed" /\ text \in {JoinLines(<<LineOffset, LineHello>>),
                                  JoinLines(<<LineHello, LineOffset>>)})
           => res.events = <<<<<<"h", "e", "l", "l", "o">>, 1000>>>>
    /\ Returned =>
           \A i \in DOMAIN Lines :
               IsSingleLine(Lines[i]) =>
                   LET v == SingleValue(Lines[i], 0) + StatedOffset(Lines)
                   IN  v >= 0 => \E n \in DOMAIN res.events : res.events[n][2] = v

C5_Witness ==
    /\ pc = "parsed"
    /\ text = JoinLines(<<LineHello, LineOffset>>)
    /\ res.events = <<<<<<"h", "e", "l", "l", "o">>, 1000>>>>

\* C6: the events are in ascending order of value, events of equal value in
\* the order in which they were emitted; the lines [00:05]b, [00:01]a,
\* [00:03]c give a(1000), c(3000), b(5000).
C6_SortedStable ==
    Returned =>
        /\ \A i, j \in DOMAIN res.events :
               i < j => res.events[i][2] <= res.events[j][2]
        /\ Len(res.events) = Len(Emitted)
        /\ \A ev \in Range(Emitted) :
               EventsAt(res.events, ev[2]) = EventsAt(Emitted, ev[2])
        /\ text = OrderingExample =>
               res.events = <<<<<<"a">>, 1000>>, <<<<"c">>, 3000>>, <<<<"b">>, 5000>>>>

C6_Witness ==
    /\ pc = "parsed"
    /\ text = JoinLines(<<LineB, LineQ>>)
    /\ res.events = <<<<<<"b">>, 5000>>, <<<<"q">>, 5000>>>>

\* the lines that are not language or offset header lines
ContentLines == {i \in DOMAIN Lines : ~IsHeaderLine(Lines[i])}

\* the content lines parse drops without a record: single-timestamp lines
\* of negative value, and the multi-timestamp lines
DroppableLines ==
    {i \in ContentLines :
        \/ IsMultiLine(Lines[i])
        \/ IsSingleLine(Lines[i]) /\ SingleValue(Lines[i], StatedOffset(Lines)) < 0}

C8_RoundTrip ==
    pc = "reparsed" =>
        /\ res2.status = "returned"
        /\ Range(res2.events) = Range(res.events)

\* C9 as stated: standardize("[75:90]x", keep) is "[76:30]x".
C9_CarryIntoMinutes ==
    (pc = "standardized" /\ mode = "keep" /\ text = LineCarry)
        => std1 = <<"[", "7", "6", ":", "3", "0", "]", "x">>

\* C9 as amended: standardize("[75:90]x", keep) is "[01:16:30]x": the 90
\* seconds carry a minute and the 76 minutes carry an hour.
C9_CarryIntoHours ==
    (pc = "standardized" /\ mode = "keep" /\ text = LineCarry)
        => std1 = <<"[", "0", "1", ":", "1", "6", ":", "3", "0", "]", "x">>

C9_Witness ==
    /\ pc = "standardized"
    /\ mode = "keep"
    /\ text = LineCarry
    /\ std1 = <<"[", "0", "1", ":", "1", "6", ":", "3", "0", "]", "x">>

\* C10: standardize in force.xxx mode is idempotent: standardizing its
\* result again changes nothing.
C10_ForceThreeIdempotent ==
    (pc = "restandardized" /\ mode = "force.xxx") => std2 = std1

C10_Witness ==
    /\ pc = "restandardized"
    /\ mode = "force.xxx"
    /\ text = JoinLines(<<LineHour, LineBlanks>>)
    /\ std1 = <<"[", "0", "1", ":", "0", "0", ":", "0", "0", ".", "5", "0", "0", "]", "x", " ", "\n", "\n">>
    /\ std2 = std1

-----------------------------------------------------------------------------
(* The timestamp tokens of a text, as standardize finds them               *)

\* the tokens of s from p on, each as its groups, in the order in which
\* re.sub meets them
RECURSIVE TokensFrom(_, _)
TokensFrom(s, p) ==
    LET Scan(m) ==
            IF m.matched
            THEN <<TSGroups(s, p, m.shape)>> \o TokensFrom(s, m.end)
            ELSE TokensFrom(s, p + 1)
    IN  IF p > Len(s) THEN <<>> ELSE Scan(TokenAt(s, p))

Tokens(s) == TokensFrom(s, 1)

\* the milliseconds each token of s denotes
TokenValues(s) ==
    LET toks == Tokens(s)
    IN  [k \in DOMAIN toks |-> StatedValue(toks[k], 0)]

\* C11: in keep and force.xxx modes the tokens of the standardized text
\* denote, one by one, the same number of milliseconds as the tokens of the
\* text.
C11_TimePreserved ==
    (pc = "standardized" /\ mode \in {"keep", "force.xxx"})
        => TokenValues(std1) = TokenValues(text)

\* C12: in keep mode every rewritten token has as many fraction digits as
\* the token it replaces (none, 2 or 3), and it has an hour group exactly
\* when the hours of the time the token denotes, after the carry, are not 0.
C12_KeepShape ==
    (pc = "standardized" /\ mode = "keep") =>
        LET before == Tokens(text)
            after  == Tokens(std1)
        IN  /\ Len(after) = Len(before)
            /\ \A k \in DOMAIN before :
                   /\ Len(after[k].milliseconds) = Len(before[k].milliseconds)
                   /\ (after[k].hours # <<>>)
                          <=> (StatedValue(before[k], 0) \div 3600000 # 0)

\* the fraction a force mode is to give a token of fraction f: "00" or
\* "000" without one, the first two digits under force.xx, the digits
\* padded with zeros to three under force.xxx
ForcedFraction(f, m) ==
    IF m = "force.xx"
    THEN (IF f = <<>> THEN <<"0", "0">> ELSE SubSeq(f, 1, 2))
    ELSE (IF f = <<>> THEN <<"0", "0", "0">>
          ELSE IF Len(f) = 2 THEN f \o <<"0">>
          ELSE f)

\* C13: in force.xx mode every rewritten token ends in exactly 2 fraction
\* digits and in force.xxx mode in exactly 3: .00 / .000 for a token without
\* a fraction, the first two digits of a 3-digit fraction under force.xx
\* (truncated, not rounded), a 2-digit fraction padded with 0 under
\* force.xxx.
C13_ForcedWidth ==
    (pc = "standardized" /\ mode \in {"force.xx", "force.xxx"}) =>
        LET before == Tokens(text)
            after  == Tokens(std1)
        IN  /\ Len(after) = Len(before)
            /\ \A k \in DOMAIN before :
                   after[k].milliseconds
                       = ForcedFraction(before[k].milliseconds, mode)

C13_Witness ==
    /\ pc = "standardized"
    /\ mode = "force.xx"
    /\ text = LineTrunc
    /\ std1 = <<"[", "0", "0", ":", "0", "1", ".", "9", "9", "]", "x">>

\* the value of line i if it is a single-timestamp line
ValueOfLine(i) == SingleValue(Lines[i], StatedOffset(Lines))

\* C14: a single-timestamp line of negative value after the offset gives no
\* event and no omittedLines record; one of value exactly 0 gives an event.
C14_NegativeDroppedZeroKept ==
    Returned =>
        /\ \A i \in DOMAIN Lines :
               IsSingleLine(Lines[i]) =>
                   /\ \A n \in DOMAIN res.omitted :
                          res.omitted[n] # IntToDigits(i) \o <<" ">> \o Lines[i]
                   /\ ValueOfLine(i) = 0 =>
                          <<TextAfterBracket(Lines[i]), 0>> \in Range(res.events)
        /\ ~HasMultiLine =>
               Len(res.events)
                   = Cardinality({i \in DOMAIN Lines :
                                     IsSingleLine(Lines[i]) /\ ValueOfLine(i) >= 0})

C14_Witness ==
    /\ pc = "parsed"
    /\ text = JoinLines(<<LineOffset, LineA>>)
    /\ res.events = <<<<<<"a">>, 0>>>>
    /\ Len(res.omitted) = 1

\* the language code of the first language tag line, "eng" without one
StatedLanguage(lines) ==
    LET hits == {i \in DOMAIN lines : LanguageWidthAt(lines[i], 1) > 0}
    IN  IF hits = {} THEN <<"e", "n", "g">>
        ELSE SearchLanguage(lines[CHOOSE i \in hits : \A j \in hits : i <= j])

\* C15: the language returned is the code of the first line of the document
\* that is a language tag, "eng" without one; the offset is the value of the
\* first line that is an offset tag, wherever it sits, later tags being
\* ignored.
C15_FirstHeaderWins ==
    Returned =>
        /\ res.language = StatedLanguage(Lines)
        /\ SearchOffset(text) = StatedOffset(Lines)
        /\ text = HeaderExample =>
               res.events = <<<<<<"h", "e", "l", "l", "o">>, 2500>>>>

C15_Witness ==
    /\ pc = "parsed"
    /\ text = HeaderExample
    /\ res.language = <<"f", "r", "a">>
    /\ res.events = <<<<<<"h", "e", "l", "l", "o">>, 2500>>>>

\* the records of the lines of index above n that are neither
\* single-timestamp nor multi-timestamp lines, in line order
RECURSIVE StatedOmitted(_, _)
StatedOmitted(lines, n) ==
    IF n >= Len(lines) THEN <<>>
    ELSE (IF IsSingleLine(lines[n + 1]) \/ IsMultiLine(lines[n + 1])
          THEN <<>>
          ELSE <<IntToDigits(n + 1) \o <<" ">> \o lines[n + 1]>>)
         \o StatedOmitted(lines, n + 1)

\* C16: every line that is neither a single-timestamp line nor a
\* multi-timestamp line gives exactly one omittedLines record, its 1-based
\* line number, a space and the line; the records are in line order and
\* there are no others.
C16_OmittedRecords ==
    Returned => res.omitted = StatedOmitted(Lines, 0)

C16_Witness ==
    /\ pc = "parsed"
    /\ text = OmittedExample
    /\ res.omitted = <<<<"2", " ", "[", "0", "0", ":", "0", "1", ".", "5", "]", "x">>,
                       <<"3", " ">>,
                       <<"4", " ", "[", "a", "r", ":", "x", "]">>>>

\* the characters of the texts
Alphabet ==
    Digits \cup Letters
    \cup {"_", "[", "]", "<", ">", ":", ".", "+", "-", " ", "\t", "\n"}

\* C17: standardize returns a text in each of the three modes, it never
\* raises, and every token that timestamp_pattern matches is decomposed,
\* whole, by split_timestamp_pattern.
C17_StandardizeTotal ==
    /\ pc = "standardized" =>
           \A p \in DOMAIN text :
               LET m == TokenAt(text, p)
               IN  m.matched =>
                       LET token == SubSeq(text, p, m.end - 1)
                           split == SplitTimestamp(token)
                       IN  split.matched /\ split.end = Len(token) + 1
    /\ pc = "standardized" =>
           /\ mode \in Modes
           /\ std1 # StandardizeRaised
           /\ \A i \in DOMAIN std1 : std1[i] \in Alphabet

C17_Witness ==
    /\ pc = "standardized"
    /\ mode = "keep"
    /\ text = LineLongMinutes
    /\ std1 = <<"[", "0", "1", ":", "4", "0", ":", "0", "0", "]", "x">>

\* C18: in an import run with --delete, every lyrics file deleted belongs to
\* a music file whose import succeeded: none belongs to a music file that
\* was skipped or that failed.
C18_DeleteOnlyImported ==
    (args.run = "import" /\ phase = "done") =>
        \A f \in results.deleted :
            /\ f[1] \in results.saved
            /\ f[1] \notin results.skipped \cup results.failed

\* C19: in an export run with --delete, a music file whose tags were purged
\* had every one of its lyrics written in this run: none was skipped because
\* the target existed, none failed.
C19_PurgeOnlyExported ==
    (args.run = "export" /\ phase = "done") =>
        \A f \in all_lyrics :
            f[1] \in results.purged => f \in results.saved

\* C20: a line whose leading timestamp is followed, directly or after
\* spaces, by another bracketed timestamp is not read as a single-timestamp
\* line: no event has a text that starts with a bracketed timestamp, and
\* [00:01] [00:02]text does not give the event ("[00:02]text", 1000).
C20_NoSwallowedTimestamp ==
    Returned =>
        /\ \A n \in DOMAIN res.events : ~BracketTS(res.events[n][1], 1).matched
        /\ text = LineSwallow =>
               <<<<"[", "0", "0", ":", "0", "2", "]", "t", "e", "x", "t">>, 1000>>
                   \notin Range(res.events)

\* C21: every event parse returns has a value >= 0, whatever the text and
\* the offset, from a single-timestamp line or from a multi-timestamp line.
C21_EventsNotNegative ==
    /\ Returned => \A n \in DOMAIN res.events : res.events[n][2] >= 0
    /\ (pc = "reparsed" /\ res2.status = "returned") =>
           \A n \in DOMAIN res2.events : res2.events[n][2] >= 0

C21_Witness ==
    /\ Returned
    /\ text = NegativeMultiExample
    /\ Emitted = <<>>
    /\ res.events = <<>>

\* C22: standardize leaves a text without a timestamp token and without a
\* run of 3 or more newlines as it is; [Verse 12] la la keeps its space.
C22_OnlyTimestampsTouched ==
    (/\ pc = "standardized"
     /\ Tokens(text) = <<>>
     /\ \A p \in DOMAIN text : NewlinesAt(text, p) < 3)
        => std1 = text

\* C23: in import runs without --overwrite no step changes a lyrics tag that
\* a music file carries, whatever the number of runs; a tag is added only
\* where there was none, and a music file that was embedded without error
\* and got no tag is recorded as skipped and not as saved.
C23_ExistingTagsKept ==
    [][(args.run = "import" /\ ~args.overwrite) =>
           /\ \A song \in Songs : \A k \in Kinds :
                  tags[song][k] # "none" => tags'[song][k] = tags[song][k]
           /\ \A song \in todo \ todo' :
                  tags'[song] = tags[song] =>
                      /\ song \notin results'.saved
                      /\ song \notin results'.failed => song \in results'.skipped]_vars

C23_Witness ==
    /\ args.run = "import"
    /\ ~args.overwrite
    /\ phase = "done"
    /\ tags["a.flac"] = [lrc |-> "old", txt |-> "new"]
    /\ "a.flac" \in results.saved
    /\ tags["b.mp3"] = [lrc |-> "old", txt |-> "none"]
    /\ "b.mp3" \in results.skipped

\* the lines of the text written to the .lrc file
WrittenLines == SplitLines(written)

\* C24: when the SYLT frame of an MP3 carries a language code, the text
\* written to the .lrc file on export has the line [la:<lang>]; stated
\* for a frame with at least one event.
C24_LanguageLineWritten ==
    (pc = "written" /\ res.language # <<>> /\ res.events # <<>>) =>
        \E i \in DOMAIN WrittenLines :
            WrittenLines[i] = <<"[", "l", "a", ":">> \o res.language \o <<"]">>

-----------------------------------------------------------------------------
(* find_lyrics_files, lines 116-154, over a directory with one             *)
(* subdirectory.  A file name is a sequence of characters; a path is the   *)
(* pair of the directory ("top" or "sub") and the file name.               *)

\* file.endswith(suffix)
EndsWith(file, suffix) ==
    /\ Len(file) >= Len(suffix)
    /\ SubSeq(file, Len(file) - Len(suffix) + 1, Len(file)) = suffix

\* re.match(txt_pattern, file) with txt_pattern ^\d{2,3}\s, line 118
TxtPatternMatches(file) ==
    /\ AllDigits(file, 1, 2)
    /\ \/ At(file, 3) \in Whitespace
       \/ IsDigit(At(file, 3)) /\ At(file, 4) \in Whitespace

\* lines 127 and 140
IsLrcFile(file) == EndsWith(file, <<".", "l", "r", "c">>)

\* lines 131 and 144
IsTxtFile(file) ==
    ~IsLrcFile(file) /\ EndsWith(file, <<".", "t", "x", "t">>) /\ TxtPatternMatches(file)

\* lines 120-134: os.walk over the directory and its subdirectory
WalkResult(top, sub) ==
    [status |-> "returned",
     lrc    |-> {<<"top", f>> : f \in {x \in top : IsLrcFile(x)}}
                \cup {<<"sub", f>> : f \in {x \in sub : IsLrcFile(x)}},
     txt    |-> {<<"top", f>> : f \in {x \in top : IsTxtFile(x)}}
                \cup {<<"sub", f>> : f \in {x \in sub : IsTxtFile(x)}}]

\* lines 135-147: os.listdir(directory); `root` is bound only by the loop
\* of line 124, so its read at lines 141 and 145 raises for the first
\* lyrics file of the listing
ListdirResult(top) ==
    IF \E f \in top : IsLrcFile(f) \/ IsTxtFile(f)
    THEN [status |-> "raised", lrc |-> {}, txt |-> {}]
    ELSE [status |-> "returned", lrc |-> {}, txt |-> {}]

\* lines 149-154: exit when nothing was found
ExitIfEmpty(r) ==
    IF r.status = "returned" /\ r.lrc = {} /\ r.txt = {}
    THEN [status |-> "exited", lrc |-> {}, txt |-> {}]
    ELSE r

\* find_lyrics_files(directory, single_folder, progress)
FindLyricsFilesOf(dir) ==
    ExitIfEmpty(IF dir.single_folder
                THEN ListdirResult(dir.top)
                ELSE WalkResult(dir.top, dir.sub))

\* 01 a.lrc
FileLrc == <<"0", "1", " ", "a", ".", "l", "r", "c">>

\* 01 a.txt
FileTxt == <<"0", "1", " ", "a", ".", "t", "x", "t">>

\* notes.txt
FileNotes == <<"n", "o", "t", "e", "s", ".", "t", "x", "t">>

\* 01 a.mp3
FileSong == <<"0", "1", " ", "a", ".", "m", "p", "3">>

FileNames == {FileLrc, FileTxt, FileNotes, FileSong}

FindInit ==
    /\ text = <<>>
    /\ pc = "idle"
    /\ res = NoResult
    /\ lrc = <<>>
    /\ res2 = NoResult
    /\ mode = "none"
    /\ std1 = <<>>
    /\ std2 = <<>>
    /\ written = <<>>
    /\ FilesIdle
    /\ TagIdle
    /\ folder \in [single_folder : BOOLEAN, top : SUBSET FileNames,
                                            sub : SUBSET FileNames]
    /\ found = NotFound

FindLyricsFiles ==
    /\ found.status = "none"
    /\ found' = FindLyricsFilesOf(folder)
    /\ UNCHANGED <<lyricVars, fileVars, tagVars, folder>>

FindNext == FindLyricsFiles

FindSpec == FindInit /\ [][FindNext]_vars

\* C25: with --single_folder, find_lyrics_files does not raise; it returns
\* the .lrc files and the digit-prefixed .txt files that lie directly in the
\* directory, none from the subdirectory, and it exits only when the
\* directory holds no such file.
C25_SingleFolderFinds ==
    (folder.single_folder /\ found.status # "none") =>
        /\ found.status # "raised"
        /\ found.status = "exited"
               <=> ~\E f \in folder.top : IsLrcFile(f) \/ IsTxtFile(f)
        /\ found.status = "returned" =>
               /\ found.lrc = {<<"top", f>> : f \in {x \in folder.top : IsLrcFile(x)}}
               /\ found.txt = {<<"top", f>> : f \in {x \in folder.top : IsTxtFile(x)}}

Hello == <<"h", "e", "l", "l", "o">>

\* C26: the offset tag counts only with an explicit sign: [offset:+500] and
\* [offset:-500] shift the timestamps, [offset:500] leaves the offset at 0
\* and gives nothing but its omittedLines record; in a text without a
\* signed offset tag every single-timestamp line keeps its own value.
C26_OffsetNeedsSign ==
    Returned =>
        /\ text = PlusExample => res.events = <<<<Hello, 2500>>>>
        /\ text = MinusExample => res.events = <<<<Hello, 1500>>>>
        /\ text = UnsignedExample =>
               /\ res.events = <<<<Hello, 2000>>>>
               /\ res.omitted = <<<<"1", " ">> \o LineOffsetUnsigned>>
        /\ (\A i \in DOMAIN Lines : ~OffsetMatchesAt(Lines[i], 1)) =>
               \A i \in DOMAIN Lines :
                   /\ IsSingleLine(Lines[i]) =>
                          <<TextAfterBracket(Lines[i]), SingleValue(Lines[i], 0)>>
                              \in Range(res.events)
                   /\ UnsignedOffsetAt(Lines[i], 1) =>
                          IntToDigits(i) \o <<" ">> \o Lines[i] \in Range(res.omitted)

C26_Witness ==
    /\ pc = "parsed"
    /\ text = UnsignedExample
    /\ res.events = <<<<Hello, 2000>>>>
    /\ res.omitted = <<<<"1", " ">> \o LineOffsetUnsigned>>

\* C27: standardizing in keep mode before parsing leaves the parsed events
\* as they are: whenever the text parses, the standardized text parses too,
\* to the same sequence of (text, milliseconds) pairs.
C27_StandardizeKeepsEvents ==
    (pc = "compared" /\ mode = "keep" /\ res.status = "returned") =>
        /\ res2.status = "returned"
        /\ res2.events = res.events

\* C28: an import turn that changes the tags of a music file records the
\* file under "saved" and not under "failed": a file is recorded as failed
\* only if it was left as it was.
C28_FailedOnlyUnmodified ==
    [][\A song \in Songs :
           (phase = "embedding" /\ song \in todo /\ song \notin todo'
            /\ tags'[song] # tags[song])
               => (song \in results'.saved /\ song \notin results'.failed)]_vars

-----------------------------------------------------------------------------
(* tag_external: rewrite_external_lyrics moves the header tags of a lyrics *)
(* file to its top, with the tags of the music file taking precedence.     *)

\* the position of the last character of the line that holds position p
RECURSIVE LineLast(_, _)
LineLast(t, p) == IF At(t, p) \in {"\n", "END"} THEN p - 1 ELSE LineLast(t, p + 1)

\* the patterns of lines 913-924, in the order of the dictionary: the names
\* the tag may have, and the shape of its value
TagPatterns ==
    <<[key |-> "artist", names |-> {<<"a", "r">>}, shape |-> "any"],
      [key |-> "album", names |-> {<<"a", "l">>}, shape |-> "any"],
      [key |-> "title", names |-> {<<"t", "i">>}, shape |-> "any"],
      [key |-> "author", names |-> {<<"a", "u">>}, shape |-> "any"],
      [key |-> "length", names |-> {<<"l", "e", "n", "g", "t", "h">>}, shape |-> "any"],
      [key |-> "language", names |-> {<<"l", "a">>}, shape |-> "word"],
      [key |-> "offset", names |-> {<<"o", "f", "f", "s", "e", "t">>}, shape |-> "number"],
      [key |-> "lrc_author", names |-> {<<"b", "y">>}, shape |-> "any"],
      [key |-> "creation_software",
       names |-> {<<"r", "e">>, <<"t", "o", "o", "l">>}, shape |-> "any"],
      [key |-> "software_version", names |-> {<<"v", "e">>}, shape |-> "any"]>>

TagKeys == {TagPatterns[k].key : k \in DOMAIN TagPatterns}

\* ^\[name: *(.*) *\]$ tried at p: "." matches no "\n", so the "]" that
\* closes the match is the last character of the line
AnyTagAt(t, p, name) ==
    /\ IsLineStart(t, p)
    /\ LiteralAt(t, p, <<"[">> \o name \o <<":">>)
    /\ LineLast(t, p) >= p + Len(name) + 2
    /\ At(t, LineLast(t, p)) = "]"

\* whether the pattern matches at p
TagMatchAt(t, p, pattern) ==
    CASE pattern.shape = "word" -> LanguageWidthAt(t, p) > 0
      [] pattern.shape = "number" -> OffsetMatchesAt(t, p) \/ UnsignedOffsetAt(t, p)
      [] OTHER -> \E name \in pattern.names : AnyTagAt(t, p, name)

\* match.group(1) of the match at p: the value starts after the colon and
\* the spaces that follow it, and ends before the closing "]"
TagGroupAt(t, p, pattern) ==
    LET After(c) == SubSeq(t, c + 1 + SpacesAt(t, c + 1), LineLast(t, p) - 1)
    IN  After(CHOOSE c \in p .. LineLast(t, p) :
                  /\ t[c] = ":"
                  /\ \A b \in p .. (c - 1) : t[b] # ":")

\* pattern.sub('', lyrics), line 934, from p on: every match is a whole
\* line, and its "\n" stays
RECURSIVE RemoveTag(_, _, _)
RemoveTag(t, p, pattern) ==
    IF p > Len(t) THEN <<>>
    ELSE IF TagMatchAt(t, p, pattern)
    THEN RemoveTag(t, LineLast(t, p) + 1, pattern)
    ELSE <<t[p]>> \o RemoveTag(t, p + 1, pattern)

NoneExtracted == [key \in TagKeys |-> <<>>]

\* the loop of lines 930-934 from the k-th pattern on; None and the empty
\* string, both false at lines 937-961, are the empty sequence
RECURSIVE ExtractTags(_, _, _)
ExtractTags(lyrics, k, extracted) ==
    IF k > Len(TagPatterns) THEN [lyrics |-> lyrics, extracted |-> extracted]
    ELSE LET Search(ps) ==
                 IF ps = {} THEN ExtractTags(lyrics, k + 1, extracted)
                 ELSE ExtractTags(
                          RemoveTag(lyrics, 1, TagPatterns[k]), k + 1,
                          [extracted EXCEPT ![TagPatterns[k].key] =
                               TagGroupAt(lyrics,
                                          CHOOSE x \in ps : \A y \in ps : x <= y,
                                          TagPatterns[k])])
         IN  Search({p \in 1 .. Len(lyrics) : TagMatchAt(lyrics, p, TagPatterns[k])})

\* a or b on strings and None
Or(a, b) == IF a # <<>> THEN a ELSE b

\* lines 937-938
FinalTags(tags_of_song, extracted) ==
    [artist |-> Or(tags_of_song.artist, extracted.artist),
     album |-> Or(tags_of_song.album, extracted.album),
     title |-> Or(tags_of_song.title, extracted.title),
     author |-> Or(tags_of_song.lyricist, Or(extracted.author, tags_of_song.composer)),
     length |-> Or(tags_of_song.length, extracted.length),
     language |-> extracted.language,
     offset |-> extracted.offset,
     lrc_author |-> extracted.lrc_author,
     creation_software |-> extracted.creation_software,
     software_version |-> extracted.software_version]

\* lines 941-961
HeaderLines(final_tags) ==
    LET Header(name, value) ==
            IF value = <<>> THEN <<>>
            ELSE <<(<<"[">> \o name \o <<":">> \o value \o <<"]">>)>>
    IN  Header(<<"a", "r">>, final_tags.artist)
        \o Header(<<"a", "l">>, final_tags.album)
        \o Header(<<"t", "i">>, final_tags.title)
        \o Header(<<"a", "u">>, final_tags.author)
        \o Header(<<"l", "e", "n", "g", "t", "h">>, final_tags.length)
        \o Header(<<"l", "a">>, final_tags.language)
        \o Header(<<"o", "f", "f", "s", "e", "t">>, final_tags.offset)
        \o Header(<<"b", "y">>, final_tags.lrc_author)
        \o Header(<<"r", "e">>, final_tags.creation_software)
        \o Header(<<"v", "e">>, final_tags.software_version)

\* "\n".join(header_lines + [lyrics.strip()]), line 964
RECURSIVE JoinWithNewline(_)
JoinWithNewline(parts) ==
    IF Len(parts) = 1 THEN parts[1]
    ELSE parts[1] \o <<"\n">> \o JoinWithNewline(Tail(parts))

\* updated_lyrics of rewrite_external_lyrics, lines 909-964, from the
\* lyrics after line 911
UpdatedLyrics(lyrics, tags_of_song) ==
    LET Combined(cleaned) ==
            JoinWithNewline(HeaderLines(FinalTags(tags_of_song, cleaned.extracted))
                            \o <<StripText(cleaned.lyrics)>>)
    IN  Combined(ExtractTags(lyrics, 1, NoneExtracted))

\* lines 910-911: only the content of a .lrc file is standardized
StandardizedFirst(lyrics, kind, standardize) ==
    IF standardize # "off" /\ kind = "lrc"
    THEN Standardize(lyrics, standardize)
    ELSE lyrics

\* rewrite_external_lyrics, lines 908-978: the result recorded and the
\* content of the file afterwards; an exception of fix_timestamp leaves the
\* function before anything is recorded
RewriteExternalLyricsOf(lyrics, kind, tags_of_song, standardize, can_write) ==
    LET Outcome(updated_lyrics) ==
            IF updated_lyrics = lyrics
            THEN [result |-> "skipped", content |-> lyrics]
            ELSE IF can_write
            THEN [result |-> "fixed", content |-> updated_lyrics]
            ELSE [result |-> "failed", content |-> lyrics]
        After(standardized) ==
            IF standardized = StandardizeRaised
            THEN [result |-> "raised", content |-> lyrics]
            ELSE Outcome(UpdatedLyrics(standardized, tags_of_song))
    IN  After(StandardizedFirst(lyrics, kind, standardize))

\* [00:01]a, two blank lines around [ar:x], [00:05]b
TagMiddleExample == JoinLines(<<LineA, <<>>, LineArtist, <<>>, LineB>>)

\* [tool:x]
LineTool == <<"[", "t", "o", "o", "l", ":", "x", "]">>

\* [AR: x ]
LineArtistSpaced == <<"[", "A", "R", ":", " ", "x", " ", "]">>

\* [by:]
LineByEmpty == <<"[", "b", "y", ":", "]">>

TagExamples ==
    {TagMiddleExample, JoinLines(<<LineTool, LineA>>),
     JoinLines(<<LineA, LineArtistSpaced>>), JoinLines(<<LineByEmpty, LineA>>)}

\* 03:00, as format_time writes the length of the music file
LengthTag == <<"0", "3", ":", "0", "0">>

SongTagChoices ==
    {[NoTags EXCEPT !.length = LengthTag],
     [NoTags EXCEPT !.length = LengthTag, !.artist = <<"y">>, !.composer = <<"c">>]}

MaxRuns == 2

TagInit ==
    /\ text = <<>>
    /\ pc = "idle"
    /\ res = NoResult
    /\ lrc = <<>>
    /\ res2 = NoResult
    /\ mode = "none"
    /\ std1 = <<>>
    /\ std2 = <<>>
    /\ written = <<>>
    /\ FilesIdle
    /\ FindIdle
    /\ lyrics_type \in {"lrc", "txt"}
    /\ song_tags \in SongTagChoices
    /\ lyrics_file \in Inputs \cup TagExamples
    /\ writable \in BOOLEAN
    /\ tag_standardize \in {"off"} \cup Modes
    /\ tag_results = <<>>

\* one tag_external run over the lyrics file, lines 1098-1100: the file is
\* read and rewritten
RewriteExternalLyrics ==
    /\ lyrics_type # "none"
    /\ Len(tag_results) < MaxRuns
    /\ \A n \in DOMAIN tag_results : tag_results[n] # "raised"
    /\ tag_results' =
           Append(tag_results,
                  RewriteExternalLyricsOf(lyrics_file, lyrics_type, song_tags,
                                          tag_standardize, writable).result)
    /\ lyrics_file' =
           RewriteExternalLyricsOf(lyrics_file, lyrics_type, song_tags,
                                   tag_standardize, writable).content
    /\ UNCHANGED <<lyricVars, fileVars, findVars, lyrics_type, song_tags,
                   writable, tag_standardize>>

TagNext == RewriteExternalLyrics

TagSpec == TagInit /\ [][TagNext]_vars

\* C29: rewrite_external_lyrics is idempotent: after a run that left the
\* file with the content it computed (recorded as fixed or as skipped), the
\* next run with the same tags and the same mode computes the same content
\* and records the file as skipped.
C29_RewriteIdempotent ==
    \A n \in DOMAIN tag_results :
        (n > 1 /\ tag_results[n - 1] \in {"fixed", "skipped"})
            => tag_results[n] = "skipped"

====
